---- MODULE Spec2Model ----
(***************************************************************************)
(* A model of the agent/tool orchestration framework:                      *)
(*   - SummarizeAgent (agents/summarize/summarize_agent.py) with           *)
(*     SummarizeTool and MergeSummariesTool (tools/summarize_tool.py):     *)
(*     specification SpecSum;                                              *)
(*   - GymTrainerAgent (agents/gym_trainer/gym_trainer_agent.py), its      *)
(*     chat session, agentic loop and tool dispatch: specification Spec;   *)
(*   - the tools of GymTrainerAgent (tools/user_profile_tool.py,           *)
(*     tools/progress_tracker_tool.py) and the JSON stores they persist    *)
(*     to (agents/gym_trainer/user_profile.py), invoked one call at a      *)
(*     time through _execute_tool: specification SpecTools;                *)
(*   - AnthropicClient.complete_json (llm_clients/anthropic_client.py):    *)
(*     specification SpecJson;                                             *)
(*   - a session started through GymTrainerAgent.run: specification        *)
(*     SpecRun;                                                            *)
(*   - _compute_streak (tools/progress_tracker_tool.py) on stored session  *)
(*     lists: specification SpecStreak.                                    *)
(* Texts are modelled by their length and chunks by the character span     *)
(* [lo, hi) that the Python slice text[start:end] selects.                 *)
(***************************************************************************)
EXTENDS Integers, Sequences, FiniteSets, TLC

VARIABLES
    \* ---- SummarizeAgent ----
    text_len,         \* len(agent_input.text)
    chunk_size,       \* self.chunk_size
    chunk_overlap,    \* self.chunk_overlap
    entry,            \* the method called: "run" or "_chunk_text"
    spc,              \* position of SummarizeAgent.run
    start,            \* _chunk_text: local start
    chunks,           \* _chunk_text: local chunks (spans)
    chunk_summaries,  \* _summarize_chunked: local chunk_summaries
    calls,            \* every tool.run made by the current run, in order
    output,           \* the SummarizeOutput returned by run
    \* ---- shared LLM client ----
    system_prompt,    \* llm_client.config.system_prompt
    \* ---- GymTrainerAgent ----
    history,          \* self._history
    pc,               \* position of chat() / _run_agentic_loop
    in_try,           \* chat(): inside the try/finally block
    original_system,  \* chat(): local original_system
    pending,          \* response.tool_calls not yet executed
    tool_results,     \* _run_agentic_loop: local tool_results
    model_calls,      \* number of complete_with_tools calls issued
    inputs,           \* number of lines read by input()
    next_id,          \* next tool_use_id the backend will generate
    response,         \* _run_agentic_loop: local response
    user_input,       \* chat(): local user_input
    error,            \* the exception that left chat(), "none" if none did
    chats,            \* number of chat() calls made on the agent
    tool_requests,    \* backend requests made by complete_with_tools
    \* ---- tools and their stores ----
    profiles,         \* data/profiles/{user_id}.json, per user
    sessions,         \* data/progress/{user_id}_progress.json, per user
    now,              \* datetime.utcnow(), in days
    executed,         \* every _execute_tool call made, in order
    tools,            \* self.tools
    _tool_map,        \* self._tool_map
    _data_dir,        \* self._data_dir of the agent
    tool_schemas,     \* chat(): local tool_schemas
    streak,           \* what the last _compute_streak call returned
    \* ---- LLM client: complete_json ----
    client,           \* the class of the LLM client
    messages,         \* complete_json: argument messages
    schema,           \* complete_json: argument schema
    sent,             \* the conversation handed to self.complete
    raw,              \* complete_json: local raw, the reply as received
    json_result,      \* what complete_json returned or raised
    json_requests,    \* backend requests made by complete_json
    jpc               \* position of complete_json

sumVars  == <<text_len, chunk_size, chunk_overlap, entry, spc, start, chunks,
              chunk_summaries, calls, output>>
toolVars == <<profiles, sessions, now, executed>>
chatVars == <<history, pc, in_try, original_system, pending, tool_results,
              model_calls, inputs, next_id, response, user_input, error,
              chats, tool_requests, toolVars>>
jsonVars == <<client, messages, schema, sent, raw, json_result,
              json_requests, jpc>>
agentVars == <<tools, _tool_map, _data_dir, tool_schemas>>
vars     == <<sumVars, system_prompt, chatVars, jsonVars, agentVars, streak>>

(***************************************************************************)
(* Bounds of the model.                                                    *)
(***************************************************************************)
MaxTextLen   == 7    \* texts of 0..MaxTextLen characters
MaxChunkSize == 4    \* chunk_size in 1..MaxChunkSize
MaxChunks    == 9    \* cap on iterations of a chunking loop that never ends
MaxCalls     == 2    \* tool calls in one model turn
MaxModelCalls == 2   \* complete_with_tools calls issued by one agent
MaxToolCalls == 2    \* tool calls requested in one history
MaxInputs    == 2    \* driver inputs read by one agent
MaxSessions  == 2    \* chat() calls on one agent
MaxOps       == 3    \* direct _execute_tool calls
MaxTime      == 1    \* days the clock advances
MaxMessages  == 2    \* messages in the list given to complete_json
MaxDay       == 4    \* session dates and today are days 0..MaxDay
MaxStored    == 4    \* sessions in a stored progress file

(***************************************************************************)
(* Program constants.                                                      *)
(***************************************************************************)
DEFAULT_CHUNK_SIZE    == 3000
DEFAULT_CHUNK_OVERLAP == 200

Min(a, b) == IF a < b THEN a ELSE b
Max(a, b) == IF a > b THEN a ELSE b

\* The client's configured system prompt before any agent touches it.
ClientPrompt == "client"

\* The user_id values tool inputs carry.
Users == {"u1", "u2"}

\* No file profiles/{user_id}.json exists.
NoProfile == [exists |-> FALSE]

\* The LLM client classes: the Anthropic client, and a client that
\* implements complete and complete_json only.
Clients == {"AnthropicClient", "TextOnlyClient"}

\* complete_json is not being called.
JsonIdle ==
    /\ messages = <<>>
    /\ schema = [required |-> {}]
    /\ sent = <<>>
    /\ raw = <<>>
    /\ json_result = [status |-> "none"]
    /\ json_requests = 0
    /\ jpc = "idle"

\* _run_agentic_loop has not assigned its local response.
NoResponse == [stop_reason |-> "none", raw_content |-> <<>>, tool_calls |-> <<>>]

\* The directories an agent is constructed with or run on; "data" is the
\* default of __init__ and of GymTrainerInput (lines 59 and 74).
Dirs == {"data", "elsewhere"}

\* A tool object: its class name and the _data_dir it holds ("none" for
\* WorkoutGeneratorTool, which takes no data_dir).
Tool(name, data_dir) == [name |-> name, data_dir |-> data_dir]

\* __init__, lines 79-84: self.tools for the constructor argument data_dir.
Tools(data_dir) ==
    << Tool("UserProfileTool", data_dir),
       Tool("WorkoutGeneratorTool", "none"),
       Tool("ProgressTrackerTool", data_dir),
       Tool("FeedbackAdapterTool", data_dir) >>

\* __init__, line 85: {t.__class__.__name__: t for t in self.tools}; a later
\* tool of the same class replaces an earlier one.
ToolMap(ts) ==
    [n \in {ts[i].name : i \in 1..Len(ts)} |->
        ts[CHOOSE i \in 1..Len(ts) :
              /\ ts[i].name = n
              /\ \A j \in (i + 1)..Len(ts) : ts[j].name # n]]

\* Schemas built for all tools but the last.
GetToolSchemasButLast ==
    [i \in 1..(Len(tools) - 1) |-> [name |-> tools[i].name]]

\* _get_tool_schemas, lines 91-104: one schema per tool of self.tools, named
\* by the class of the tool.
_get_tool_schemas == [i \in 1..Len(tools) |-> [name |-> tools[i].name]]

\* _compute_streak has not been called.
NoStreak == [status |-> "none"]

(***************************************************************************)
(* SummarizeAgent                                                          *)
(***************************************************************************)

\* Python's normalisation of one slice index against a sequence of length n.
SliceIndex(i, n) == IF i < 0 THEN Max(i + n, 0) ELSE Min(i, n)

\* The span of text[a:b] for a text of n characters.
Slice(n, a, b) ==
    LET lo == SliceIndex(a, n)
        hi == SliceIndex(b, n)
    IN  [lo |-> lo, hi |-> Max(lo, hi)]

\* A text of exactly chunk_size characters sent to the chunked path.
NeedsChunkingAtThreshold(n) == n >= chunk_size

\* _needs_chunking
_needs_chunking(n) == n > chunk_size

\* _chunk_text, line 178: end = start + self.chunk_size
ChunkEnd(s) == s + chunk_size

\* The window slid forward by the overlap instead of back.
NextStartForward(end) == end + chunk_overlap

\* The window moved on without sliding back.
NextStartNoOverlap(end) == end

\* The window put back where it started.
NextStartInPlace(end) == end - chunk_size

\* _chunk_text, line 180: start = end - self.chunk_overlap
NextStart(end) == end - chunk_overlap

\* What a complete_json call made by a summarization tool can come to:
\* a conforming reply, a gateway failure, a reply json.loads rejects, or a
\* parsed reply lacking "summary" or "key_takeaways".
Outcomes == {"ok", "gateway_error", "unparseable", "missing_field"}

\* The reply the model returns for an input: its summary and takeaways.
Reply(input) == [summary |-> [kind |-> "summary", of |-> input],
                 key_takeaways |-> <<[kind |-> "takeaway", of |-> input]>>]

ChunkPrompt == "_CHUNK_PROMPT"
FullPrompt  == "_FULL_PROMPT"
MergePrompt == "_MERGE_PROMPT"

\* The system prompt SummarizeTool.run selects.
SummarizeSystem(is_chunk) == IF is_chunk THEN ChunkPrompt ELSE FullPrompt

\* config.system_prompt after a tool's run: the override is undone only when
\* complete_json returns (no try/finally); a KeyError on the reply comes
\* after the restore.
PromptAfter(system, oc) ==
    IF oc \in {"gateway_error", "unparseable"} THEN system ELSE system_prompt

NoOutput == [status |-> "none"]

\* run, lines 144-149
SuccessOutput(result) ==
    [status |-> "success", summary |-> result.summary,
     key_takeaways |-> result.key_takeaways,
     original_content_size |-> text_len]

\* run, lines 151-157
FailedOutput(oc) ==
    [status |-> "failed", summary |-> [kind |-> "failure", of |-> oc],
     key_takeaways |-> <<>>,
     original_content_size |-> text_len]

\* An except clause that lets a reply lacking a field escape run.
OnExceptionNarrow(oc) ==
    IF oc = "missing_field"
    THEN [spc |-> "raised", output |-> NoOutput]
    ELSE [spc |-> "done", output |-> FailedOutput(oc)]

\* run, lines 151-157: the except clause catches every Exception a tool
\* call raises and returns the failed output.
OnException(oc) == [spc |-> "done", output |-> FailedOutput(oc)]

\* The merge started as soon as one chunk summary exists.
SomeChunkSummarized == Len(chunk_summaries) >= 1

\* _summarize_chunked: the for loop of lines 199-205 has run for every chunk.
AllChunksSummarized == Len(chunk_summaries) = Len(chunks)

\* The input of the whole-document call: text itself.
WholeText == [kind |-> "span", lo |-> 0, hi |-> text_len]

ChunkInput(c) == [kind |-> "span", lo |-> c.lo, hi |-> c.hi]

\* Entries numbered from 0 (enumerate without start=1).
LabelFromZero(i, n, summary) == [index |-> i - 1, total |-> n, summary |-> summary]

\* _summarize_chunked, lines 203-205: one labelled entry per chunk.
Label(i, n, summary) == [index |-> i, total |-> n, summary |-> summary]

\* _summarize_chunked, line 207: the text given to the merge tool.
Combined(entries) == [kind |-> "combined", entries |-> entries]

CallRecord(tool, is_chunk, text, oc) ==
    [tool |-> tool, is_chunk |-> is_chunk, text |-> text, outcome |-> oc]

\* run entered: the branch of lines 139-142.
RunEnter ==
    /\ spc = "start"
    /\ entry = "run"
    /\ spc' = IF _needs_chunking(text_len) THEN "chunking" ELSE "direct"
    /\ UNCHANGED <<text_len, chunk_size, chunk_overlap, entry, start, chunks,
                   chunk_summaries, calls, output, system_prompt, chatVars, jsonVars,
                   agentVars, streak>>

\* _summarize_direct and the return of run.
SummarizeDirect ==
    /\ spc = "direct"
    /\ \E oc \in Outcomes :
        /\ calls' = Append(calls, CallRecord("SummarizeTool", FALSE, WholeText, oc))
        /\ system_prompt' = PromptAfter(SummarizeSystem(FALSE), oc)
        /\ IF oc = "ok"
           THEN /\ output' = SuccessOutput(Reply(WholeText))
                /\ spc' = "done"
           ELSE /\ output' = OnException(oc).output
                /\ spc' = OnException(oc).spc
    /\ UNCHANGED <<text_len, chunk_size, chunk_overlap, entry, start, chunks,
                   chunk_summaries, chatVars, jsonVars,
                   agentVars, streak>>

\* _chunk_text called on its own (lines 175-176).
ChunkTextEnter ==
    /\ spc = "start"
    /\ entry = "_chunk_text"
    /\ spc' = "chunking"
    /\ UNCHANGED <<text_len, chunk_size, chunk_overlap, entry, start, chunks,
                   chunk_summaries, calls, output, system_prompt, chatVars, jsonVars,
                   agentVars, streak>>

\* Where _chunk_text returns to: _summarize_chunked (line 196) or its caller.
AfterChunking == IF entry = "run" THEN "summarizing" ELSE "returned"

\* One iteration of the while loop of _chunk_text (lines 177-182).
ChunkStep ==
    /\ spc = "chunking"
    /\ start < text_len
    /\ Len(chunks) < MaxChunks
    /\ LET end == ChunkEnd(start) IN
        /\ chunks' = Append(chunks, Slice(text_len, start, end))
        /\ start' = NextStart(end)
        /\ spc' = IF NextStart(end) >= text_len THEN AfterChunking ELSE "chunking"
    /\ UNCHANGED <<text_len, chunk_size, chunk_overlap, entry, chunk_summaries, calls,
                   output, system_prompt, chatVars, jsonVars,
                   agentVars, streak>>

\* _chunk_text leaves the loop by its while condition.
ChunkExit ==
    /\ spc = "chunking"
    /\ ~(start < text_len)
    /\ spc' = AfterChunking
    /\ UNCHANGED <<text_len, chunk_size, chunk_overlap, entry, start, chunks,
                   chunk_summaries, calls, output, system_prompt, chatVars, jsonVars,
                   agentVars, streak>>

\* One iteration of the for loop of _summarize_chunked (lines 199-205); a
\* failing call raises out of the loop into run's except clause.
SummarizeChunk ==
    /\ spc = "summarizing"
    /\ ~AllChunksSummarized
    /\ LET i     == Len(chunk_summaries) + 1
           input == ChunkInput(chunks[i])
       IN \E oc \in Outcomes :
           /\ calls' = Append(calls, CallRecord("SummarizeTool", TRUE, input, oc))
           /\ system_prompt' = PromptAfter(SummarizeSystem(TRUE), oc)
           /\ IF oc = "ok"
              THEN /\ chunk_summaries' =
                        Append(chunk_summaries,
                               Label(i, Len(chunks), Reply(input).summary))
                   /\ UNCHANGED <<spc, output>>
              ELSE /\ output' = OnException(oc).output
                   /\ spc' = OnException(oc).spc
                   /\ UNCHANGED chunk_summaries
    /\ UNCHANGED <<text_len, chunk_size, chunk_overlap, entry, start, chunks, chatVars, jsonVars,
                   agentVars, streak>>

\* _summarize_chunked, lines 207-211, and the return of run.
Merge ==
    /\ spc = "summarizing"
    /\ AllChunksSummarized
    /\ LET input == Combined(chunk_summaries) IN
       \E oc \in Outcomes :
           /\ calls' = Append(calls, CallRecord("MergeSummariesTool", FALSE, input, oc))
           /\ system_prompt' = PromptAfter(MergePrompt, oc)
           /\ IF oc = "ok"
              THEN /\ output' = SuccessOutput(Reply(input))
                   /\ spc' = "done"
              ELSE /\ output' = OnException(oc).output
                   /\ spc' = OnException(oc).spc
    /\ UNCHANGED <<text_len, chunk_size, chunk_overlap, entry, start, chunks,
                   chunk_summaries, chatVars, jsonVars,
                   agentVars, streak>>

\* The configurations and texts a run is checked on: a grid of small ones,
\* and the default configuration on texts of 10000 and 5700 characters.
SmallConfigs ==
    [len : 0..MaxTextLen, chunk_size : 1..MaxChunkSize,
     chunk_overlap : -1..(MaxChunkSize + 1)]

DefaultConfigs ==
    [len : {10000, 5700}, chunk_size : {DEFAULT_CHUNK_SIZE},
     chunk_overlap : {DEFAULT_CHUNK_OVERLAP}]

ChatIdle ==
    /\ history = <<>>
    /\ pc = "idle"
    /\ in_try = FALSE
    /\ original_system = ClientPrompt
    /\ pending = <<>>
    /\ tool_results = <<>>
    /\ model_calls = 0
    /\ inputs = 0
    /\ next_id = 1
    /\ response = NoResponse
    /\ user_input = ""
    /\ error = "none"
    /\ chats = 0
    /\ tool_requests = 0
    /\ profiles = [u \in Users |-> NoProfile]
    /\ sessions = [u \in Users |-> <<>>]
    /\ now = 0
    /\ executed = <<>>
    /\ tools = Tools("data")
    /\ _tool_map = ToolMap(tools)
    /\ _data_dir = "data"
    /\ tool_schemas = <<>>
    /\ streak = NoStreak

InitSum ==
    /\ \E cfg \in SmallConfigs \cup DefaultConfigs :
        /\ text_len = cfg.len
        /\ chunk_size = cfg.chunk_size
        /\ chunk_overlap = cfg.chunk_overlap
    /\ entry \in {"run", "_chunk_text"}
    /\ spc = "start"
    /\ start = 0
    /\ chunks = <<>>
    /\ chunk_summaries = <<>>
    /\ calls = <<>>
    /\ output = NoOutput
    /\ system_prompt = ClientPrompt
    /\ ChatIdle
    /\ client = "AnthropicClient"
    /\ JsonIdle

NextSum ==
    \/ RunEnter
    \/ ChunkTextEnter
    \/ SummarizeDirect
    \/ ChunkStep
    \/ ChunkExit
    \/ SummarizeChunk
    \/ Merge

SpecSum == InitSum /\ [][NextSum]_vars

\* run and _chunk_text are sequential code: a step that can be taken is taken.
SpecSumFair == SpecSum /\ WF_vars(NextSum)

(***************************************************************************)
(* GymTrainerAgent                                                         *)
(***************************************************************************)

TrainerPrompt == "_SYSTEM_PROMPT"

\* __init__, lines 79-85: the keys of self._tool_map.
ToolNames == DOMAIN _tool_map

\* The raw input of a tool call. shape is how the call fares: "valid" (the
\* tool's schema accepts it and run returns), "malformed" (the schema rejects
\* it) or "run_raises" (the schema accepts it and run raises: the tool's
\* complete_json call fails). action is the action field of a
\* UserProfileTool input; data stands for the remaining fields, "missing"
\* when a field that save requires is absent.
ToolInput(shape, action, user_id, data) ==
    [shape |-> shape, action |-> action, user_id |-> user_id, data |-> data]

\* The tool requests a model turn is drawn from: a registered tool with an
\* input its schema accepts, a registered tool with an input its schema
\* rejects, a registered tool whose run raises on an accepted input, and a
\* name that is not registered.
Requests ==
    { [tool_name |-> "UserProfileTool",
       tool_input |-> ToolInput("valid", "save", "u1", "p1")],
      [tool_name |-> "UserProfileTool",
       tool_input |-> ToolInput("malformed", "save", "u1", "p1")],
      [tool_name |-> "ProgressTrackerTool",
       tool_input |-> ToolInput("run_raises", "log", "u1", "s1")],
      [tool_name |-> "CalendarTool",
       tool_input |-> ToolInput("valid", "none", "u1", "none")] }

\* The tool requests a direct _execute_tool call is drawn from.
DirectRequests ==
    Requests
    \cup { [tool_name |-> "UserProfileTool",
            tool_input |-> ToolInput("valid", "save", u, d)] :
              u \in Users, d \in {"p1", "missing"} }
    \cup { [tool_name |-> "UserProfileTool",
            tool_input |-> ToolInput("valid", "save", "u1", "p2")] }
    \cup { [tool_name |-> "UserProfileTool",
            tool_input |-> ToolInput("valid", "load", u, "none")] : u \in Users }
    \cup { [tool_name |-> "ProgressTrackerTool",
            tool_input |-> ToolInput("valid", "log", u, "s1")] : u \in Users }
    \cup { [tool_name |-> "ProgressTrackerTool",
            tool_input |-> ToolInput("malformed", "log", "u1", "s1")] }
    \cup { [tool_name |-> "ProgressTrackerTool",
            tool_input |-> ToolInput("valid", "log", u, "s2")] : u \in Users }
    \cup { [tool_name |-> "FeedbackAdapterTool",
            tool_input |-> ToolInput("valid", "adapt", "u1", "none")] }

\* Sequences of 1..n requests.
RequestSeqs(n) == UNION { [1..k -> Requests] : k \in 1..n }

TextBlock(text) == [type |-> "text", text |-> text]

\* The content blocks of a tool-requesting reply: the backend gives every
\* tool_use block an identifier of its own.
ToolUseBlocks(reqs, first_id) ==
    [i \in 1..Len(reqs) |->
        [type |-> "tool_use", id |-> first_id + i - 1,
         name |-> reqs[i].tool_name, input |-> reqs[i].tool_input]]

\* complete_with_tools, lines 100-113: the ToolCall list of a reply.
ToolCallsOf(raw_content) ==
    LET uses == SelectSeq(raw_content, LAMBDA b : b.type = "tool_use")
    IN  [i \in 1..Len(uses) |->
            [tool_use_id |-> uses[i].id, tool_name |-> uses[i].name,
             tool_input |-> uses[i].input]]

\* complete_with_tools, lines 115-120.
LLMResponse(stop_reason, raw_content) ==
    [stop_reason |-> stop_reason, raw_content |-> raw_content,
     tool_calls |-> ToolCallsOf(raw_content)]

\* complete_with_tools, lines 100-104: response.text, the text of the last
\* text block of the reply.
TextOf(raw_content) ==
    LET texts == SelectSeq(raw_content, LAMBDA b : b.type = "text")
    IN  IF texts = <<>> THEN "" ELSE texts[Len(texts)].text

\* The tool_use blocks of a turn of the history.
ToolUses(turn) == SelectSeq(turn.content, LAMBDA b : b.type = "tool_use")

\* A model turn that requests tool calls.
IsToolRequest(turn) == turn.role = "assistant" /\ ToolUses(turn) # <<>>

\* The number of tool calls the model has requested so far.
ToolCallsRequested == next_id - 1

\* The replies complete_with_tools can return.
Responses(first_id) ==
    {LLMResponse("end_turn", <<TextBlock("reply")>>),
     LLMResponse("end_turn", <<TextBlock("preamble"), TextBlock("reply")>>),
     LLMResponse("max_tokens", <<TextBlock("cut")>>)}
    \cup {LLMResponse("tool_use",
                       <<TextBlock("reply")>> \o ToolUseBlocks(reqs, first_id)) :
              reqs \in RequestSeqs(Min(MaxCalls, MaxToolCalls - ToolCallsRequested))}

\* A client without complete_with_tools that answers with text alone.
ToolRepliesDegraded(c, first_id) ==
    IF c = "AnthropicClient" THEN Responses(first_id)
    ELSE {LLMResponse("end_turn", <<TextBlock("reply")>>)}

\* The replies complete_with_tools of a client of class c can return:
\* BaseLLMClient.complete_with_tools (base_client.py, lines 76-94) returns
\* none, it raises NotImplementedError.
ToolReplies(c, first_id) ==
    IF c = "AnthropicClient" THEN Responses(first_id) ELSE {}

Turn(role, content) == [role |-> role, content |-> content]

\* A history that keeps only its newest turn.
AppendTurnForgetful(h, turn) == <<turn>>

\* self._history.append(...), lines 138, 147, 162, 182 and 197.
AppendTurn(h, turn) == Append(h, turn)

\* An assistant turn rebuilt from the reply's text alone.
AssistantTurnTextOnly(resp) ==
    Turn("assistant", <<TextBlock(TextOf(resp.raw_content))>>)

\* _run_agentic_loop, lines 137-140 and 146-149: the assistant turn carries
\* response.raw_content.
AssistantTurn(resp) == Turn("assistant", resp.raw_content)

\* _execute_tool, line 114 / line 120: json.dumps({"error": ...})
ErrorJson(msg) == [raised |-> FALSE, json |-> [error |-> msg]]

\* _execute_tool, line 118: result.model_dump_json()
ResultJson(out) == [raised |-> FALSE, json |-> out]

\* An exception leaving _execute_tool.
Raised(msg) == [raised |-> TRUE, json |-> [error |-> msg]]

(***************************************************************************)
(* The tools and the stores they persist to.                               *)
(***************************************************************************)

\* The persisted stores, as one value.
Stores == [profiles |-> profiles, sessions |-> sessions]

\* user_profile.py, lines 16-35: a UserProfile built now.
UserProfile(user_id, data) ==
    [exists |-> TRUE, user_id |-> user_id, data |-> data,
     created_at |-> now, updated_at |-> now]

\* user_profile.py, lines 38-49: a WorkoutSession built now.
WorkoutSession(data) == [date |-> now, data |-> data]

\* user_profile.py, lines 69-74.
save_profile(st, profile) ==
    [st EXCEPT !.profiles[profile.user_id] = [profile EXCEPT !.updated_at = now]]

\* A load that falls back on a profile some other user saved.
load_profileFallback(st, user_id) ==
    LET saved == {v \in Users : st.profiles[v] # NoProfile}
    IN  IF st.profiles[user_id] = NoProfile /\ saved # {}
        THEN st.profiles[CHOOSE v \in saved : TRUE]
        ELSE st.profiles[user_id]

\* user_profile.py, lines 77-81; NoProfile stands for FileNotFoundError.
load_profile(st, user_id) == st.profiles[user_id]

\* user_profile.py, lines 93-99.
load_sessions(st, user_id) == st.sessions[user_id]

\* A save that puts the new session in front of the list.
save_sessionInFront(st, user_id, session) ==
    [st EXCEPT !.sessions[user_id] = <<session>> \o st.sessions[user_id]]

\* user_profile.py, lines 84-90.
save_session(st, user_id, session) ==
    [st EXCEPT !.sessions[user_id] = Append(load_sessions(st, user_id), session)]

\* What a tool's run does: whether it raised, the output it returned (or the
\* message of the exception) and the stores it left.
RunResult(raised, out, st) == [raised |-> raised, out |-> out, stores |-> st]

\* UserProfileTool.run, user_profile_tool.py lines 68-110.
UserProfileTool_run(tool_input, st) ==
    IF tool_input.action = "load"
    THEN LET profile == load_profile(st, tool_input.user_id)
         IN  IF profile = NoProfile
             THEN RunResult(FALSE, [success |-> FALSE, profile |-> NoProfile], st)
             ELSE RunResult(FALSE, [success |-> TRUE, profile |-> profile], st)
    ELSE IF tool_input.data = "missing"
    THEN RunResult(FALSE, [success |-> FALSE, profile |-> NoProfile], st)
    ELSE LET profile == UserProfile(tool_input.user_id, tool_input.data)
         IN  RunResult(FALSE, [success |-> TRUE, profile |-> profile],
                       save_profile(st, profile))

\* The largest element of a non-empty set of days.
SetMax(S) == CHOOSE x \in S : \A y \in S : y <= x

\* _compute_streak, lines 53-56: the set of the dates of the sessions.
Dates(sess) == {sess[i].date : i \in 1..Len(sess)}

RECURSIVE StreakFromStrict(_, _, _)
\* A loop that stops at the first date that is not the expected one.
StreakFromStrict(dates, expected, n) ==
    IF dates = {} THEN n
    ELSE LET d == SetMax(dates)
         IN  IF d = expected
             THEN StreakFromStrict(dates \ {d}, expected - 1, n + 1)
             ELSE n

RECURSIVE StreakFrom(_, _, _)
\* _compute_streak, lines 60-65: the for loop over the dates, latest first,
\* with the dates still to visit, expected and streak.
StreakFrom(dates, expected, n) ==
    IF dates = {} THEN n
    ELSE LET d == SetMax(dates)
         IN  IF d = expected
             THEN StreakFrom(dates \ {d}, expected - 1, n + 1)
             ELSE IF d < expected
             THEN n
             ELSE StreakFrom(dates \ {d}, expected, n)

\* _compute_streak in which a date after today ends the count.
ComputeStreakStrict(sess) ==
    IF sess = <<>> THEN 0 ELSE StreakFromStrict(Dates(sess), now, 0)

\* _compute_streak, progress_tracker_tool.py lines 49-66; today is
\* datetime.utcnow().date().
_compute_streak(sess) ==
    IF sess = <<>> THEN 0 ELSE StreakFrom(Dates(sess), now, 0)

\* ProgressTrackerTool.run, progress_tracker_tool.py lines 85-135: the session
\* is saved before the complete_json call that may raise.
ProgressTrackerTool_run(tool_input, st) ==
    LET saved == save_session(st, tool_input.user_id,
                              WorkoutSession(tool_input.data))
        all_sessions == load_sessions(saved, tool_input.user_id)
    IN  IF tool_input.shape = "run_raises"
        THEN RunResult(TRUE, "complete_json raised", saved)
        ELSE RunResult(FALSE, [total_sessions |-> Len(all_sessions),
                               streak_days |-> _compute_streak(all_sessions),
                               progress_summary |-> "summary"], saved)

\* WorkoutGeneratorTool.run and FeedbackAdapterTool.run: one complete_json
\* call, nothing persisted.
LLMTool_run(name, tool_input, st) ==
    IF tool_input.shape = "run_raises"
    THEN RunResult(TRUE, "complete_json raised", st)
    ELSE RunResult(FALSE, [tool |-> name], st)

\* tool.run(tool_input) for the tool registered under name.
ToolRun(name, tool_input, st) ==
    CASE name = "UserProfileTool"     -> UserProfileTool_run(tool_input, st)
      [] name = "ProgressTrackerTool" -> ProgressTrackerTool_run(tool_input, st)
      [] OTHER                        -> LLMTool_run(name, tool_input, st)

\* What _execute_tool does: the JSON it returns (or the exception that leaves
\* it), how many times tool.run was invoked, and the stores it left.
Outcome(r, runs, st) ==
    [raised |-> r.raised, json |-> r.json, runs |-> runs, stores |-> st]

\* _execute_tool without its try/except.
ExecuteToolUnguarded(tool_call) ==
    IF tool_call.tool_name \notin ToolNames
    THEN Outcome(ErrorJson(<<"Unknown tool", tool_call.tool_name>>), 0, Stores)
    ELSE IF tool_call.tool_input.shape = "malformed"
    THEN Outcome(Raised("ValidationError"), 0, Stores)
    ELSE LET r == ToolRun(tool_call.tool_name, tool_call.tool_input, Stores)
         IN  IF r.raised
             THEN Outcome(Raised(r.out), 1, r.stores)
             ELSE Outcome(ResultJson(r.out), 1, r.stores)

\* _execute_tool with the lookup of the tool inside the try block, by
\* subscript: an unregistered name raises KeyError.
ExecuteToolUnknownFatal(tool_call) ==
    IF tool_call.tool_name \notin ToolNames
    THEN Outcome(Raised("KeyError"), 0, Stores)
    ELSE IF tool_call.tool_input.shape = "malformed"
    THEN Outcome(ErrorJson("ValidationError"), 0, Stores)
    ELSE LET r == ToolRun(tool_call.tool_name, tool_call.tool_input, Stores)
         IN  IF r.raised
             THEN Outcome(ErrorJson(r.out), 1, r.stores)
             ELSE Outcome(ResultJson(r.out), 1, r.stores)

\* _execute_tool handing the raw input to tool.run without building
\* tool.input_type from it.
ExecuteToolUnvalidated(tool_call) ==
    IF tool_call.tool_name \notin ToolNames
    THEN Outcome(ErrorJson(<<"Unknown tool", tool_call.tool_name>>), 0, Stores)
    ELSE LET r == ToolRun(tool_call.tool_name, tool_call.tool_input, Stores)
         IN  IF r.raised
             THEN Outcome(ErrorJson(r.out), 1, r.stores)
             ELSE Outcome(ResultJson(r.out), 1, r.stores)

\* _execute_tool, lines 110-120.
_execute_tool(tool_call) ==
    IF tool_call.tool_name \notin ToolNames
    THEN Outcome(ErrorJson(<<"Unknown tool", tool_call.tool_name>>), 0, Stores)
    ELSE IF tool_call.tool_input.shape = "malformed"
    THEN Outcome(ErrorJson("ValidationError"), 0, Stores)
    ELSE LET r == ToolRun(tool_call.tool_name, tool_call.tool_input, Stores)
         IN  IF r.raised
             THEN Outcome(ErrorJson(r.out), 1, r.stores)
             ELSE Outcome(ResultJson(r.out), 1, r.stores)

\* A result block that does not carry the identifier of its request.
ToolResultUncorrelated(tc, result_json) ==
    [type |-> "tool_result", tool_use_id |-> 0, content |-> result_json]

\* _run_agentic_loop, lines 153-159.
ToolResult(tc, result_json) ==
    [type |-> "tool_result", tool_use_id |-> tc.tool_use_id,
     content |-> result_json]

\* A for loop that executes the calls of a reply last to first.
NextCallLast(calls_left) == Len(calls_left)

\* _run_agentic_loop, line 151: the for loop takes response.tool_calls in
\* order; the position, among the calls not yet executed, of the next one.
NextCall(calls_left) == 1

\* A for loop that stops at the first call whose result is an error.
RemainingUntilError(calls_left, k, result_json) ==
    IF "error" \in DOMAIN result_json THEN <<>>
    ELSE SubSeq(calls_left, 1, k - 1) \o SubSeq(calls_left, k + 1, Len(calls_left))

\* _run_agentic_loop, lines 151-159: the calls still to execute once the
\* k-th of calls_left returned result_json.
Remaining(calls_left, k, result_json) ==
    SubSeq(calls_left, 1, k - 1) \o SubSeq(calls_left, k + 1, Len(calls_left))

\* The entry of the execution log for one _execute_tool call.
Execution(tc, result) ==
    [tool_use_id |-> tc.tool_use_id, tool_name |-> tc.tool_name,
     tool_input |-> tc.tool_input, runs |-> result.runs, json |-> result.json,
     data_dir |-> IF result.runs > 0 THEN _tool_map[tc.tool_name].data_dir
                  ELSE "none"]

\* str.strip() on the lines the driver types.
strip(line) ==
    CASE line = "   "     -> ""
      [] line = " Bye "   -> "Bye"
      [] line = " Hello " -> "Hello"
      [] OTHER            -> line

\* str.lower() on the lines the driver types.
lower(line) ==
    CASE line = "QUIT"  -> "quit"
      [] line = "Bye"   -> "bye"
      [] line = "Hello" -> "hello"
      [] OTHER          -> line

\* The lines input() returns.
InputLines == {"", "   ", "exit", "QUIT", " Bye ", " Hello "}

\* An end-of-session test that compares the line as typed.
IsEndSignalCaseSensitive(line) == line \in {"exit", "quit", "bye"}

\* chat(), line 190: user_input.lower() in ("exit", "quit", "bye")
IsEndSignal(line) == lower(line) \in {"exit", "quit", "bye"}

(***************************************************************************)
(* chat() and _run_agentic_loop                                            *)
(***************************************************************************)

\* chat(), lines 171-183, up to the first model call. chat() can be called
\* again on the same agent once an earlier call has returned or raised.
ChatStart ==
    /\ pc \in {"idle", "ended", "failed"}
    /\ chats < MaxSessions
    /\ chats' = chats + 1
    /\ original_system' = system_prompt
    /\ system_prompt' = TrainerPrompt
    /\ history' = AppendTurn(history,
                             Turn("user", <<TextBlock("Hello, I'm ready to start.")>>))
    /\ pc' = "awaiting_model"
    /\ in_try' = FALSE
    /\ pending' = <<>>
    /\ tool_results' = <<>>
    /\ response' = NoResponse
    /\ user_input' = ""
    /\ error' = "none"
    /\ tool_schemas' = _get_tool_schemas
    /\ UNCHANGED <<model_calls, inputs, next_id, toolVars, tool_requests, sumVars, jsonVars,
                   tools, _tool_map, _data_dir, streak>>

\* An exception that is caught and dropped where it was raised.
PropagateSwallowed ==
    /\ pc' = pc
    /\ system_prompt' = system_prompt

\* chat(): an exception propagating out of chat(); the finally clause of
\* lines 199-200 runs only for one raised inside the try block.
Propagate ==
    /\ pc' = "failed"
    /\ system_prompt' = IF in_try THEN original_system ELSE system_prompt

\* _run_agentic_loop, lines 132-134: complete_with_tools raises, after a
\* failed backend request or, in a client that does not override it, at once.
ModelCallFails ==
    /\ pc = "awaiting_model"
    /\ model_calls < MaxModelCalls
    /\ model_calls' = model_calls + 1
    /\ error' = "complete_with_tools"
    /\ tool_requests' = IF client = "AnthropicClient" THEN tool_requests + 1
                        ELSE tool_requests
    /\ Propagate
    /\ UNCHANGED <<history, in_try, original_system, pending, tool_results,
                   inputs, next_id, response, user_input, chats, toolVars,
                   sumVars, jsonVars,
                   agentVars, streak>>

\* _run_agentic_loop, lines 132-146: one complete_with_tools call and the
\* branch on its stop_reason.
ModelCall ==
    /\ pc = "awaiting_model"
    /\ model_calls < MaxModelCalls
    /\ model_calls' = model_calls + 1
    /\ tool_requests' = tool_requests + 1
    /\ \E resp \in ToolReplies(client, next_id) :
        /\ response' = resp
        /\ next_id' = next_id + Len(resp.tool_calls)
        /\ CASE resp.stop_reason = "end_turn" ->
                  /\ history' = AppendTurn(history, AssistantTurn(resp))
                  /\ pc' = "awaiting_input"
                  /\ in_try' = TRUE
                  /\ UNCHANGED <<pending, tool_results>>
             [] resp.stop_reason = "tool_use" ->
                  /\ history' = AppendTurn(history, AssistantTurn(resp))
                  /\ pending' = resp.tool_calls
                  /\ tool_results' = <<>>
                  /\ pc' = "dispatching"
                  /\ UNCHANGED in_try
             [] OTHER ->
                  UNCHANGED <<history, pc, in_try, pending, tool_results>>
    /\ UNCHANGED <<original_system, inputs, system_prompt, user_input, error,
                   chats, toolVars, sumVars, jsonVars,
                   agentVars, streak>>

\* _run_agentic_loop, lines 150-159: one iteration of the for loop.
ExecuteTool ==
    /\ pc = "dispatching"
    /\ pending # <<>>
    /\ LET k      == NextCall(pending)
           tc     == pending[k]
           result == _execute_tool(tc)
       IN /\ profiles' = result.stores.profiles
          /\ sessions' = result.stores.sessions
          /\ executed' = Append(executed, Execution(tc, result))
          /\ IF result.raised
             THEN /\ Propagate
                  /\ error' = "_execute_tool"
                  /\ UNCHANGED <<pending, tool_results>>
             ELSE /\ tool_results' = Append(tool_results, ToolResult(tc, result.json))
                  /\ pending' = Remaining(pending, k, result.json)
                  /\ UNCHANGED <<pc, system_prompt, error>>
    /\ UNCHANGED <<history, in_try, original_system, model_calls, inputs,
                   next_id, response, user_input, chats, now, tool_requests, sumVars, jsonVars,
                   agentVars, streak>>

\* _run_agentic_loop, line 162: the results go back as one user turn.
AppendResults ==
    /\ pc = "dispatching"
    /\ pending = <<>>
    /\ history' = AppendTurn(history, Turn("user", tool_results))
    /\ tool_results' = <<>>
    /\ pc' = "awaiting_model"
    /\ UNCHANGED <<in_try, original_system, pending, model_calls, inputs,
                   next_id, system_prompt, response, user_input, error, chats,
                   toolVars, tool_requests, sumVars, jsonVars,
                   agentVars, streak>>

\* chat(), lines 187-189: an empty line is skipped.
EmptyInput ==
    /\ pc = "awaiting_input"
    /\ inputs < MaxInputs
    /\ inputs' = inputs + 1
    /\ \E line \in InputLines :
        /\ user_input' = strip(line)
        /\ user_input' = ""
    /\ UNCHANGED <<history, pc, in_try, original_system, pending, tool_results,
                   model_calls, next_id, system_prompt, response, error, chats,
                   toolVars, tool_requests, sumVars, jsonVars,
                   agentVars, streak>>

\* chat(), lines 190-195 and 199-200: "exit", "quit" or "bye".
EndSession ==
    /\ pc = "awaiting_input"
    /\ inputs < MaxInputs
    /\ inputs' = inputs + 1
    /\ \E line \in InputLines :
        /\ user_input' = strip(line)
        /\ user_input' # ""
        /\ IsEndSignal(user_input')
    /\ pc' = "ended"
    /\ system_prompt' = original_system
    /\ UNCHANGED <<history, in_try, original_system, pending, tool_results,
                   model_calls, next_id, response, error, chats, toolVars,
                   tool_requests, sumVars, jsonVars,
                   agentVars, streak>>

\* chat(), lines 197-198: any other text becomes a user turn.
UserInput ==
    /\ pc = "awaiting_input"
    /\ inputs < MaxInputs
    /\ inputs' = inputs + 1
    /\ \E line \in InputLines :
        /\ user_input' = strip(line)
        /\ user_input' # ""
        /\ ~IsEndSignal(user_input')
    /\ history' = AppendTurn(history, Turn("user", <<TextBlock(user_input')>>))
    /\ pc' = "awaiting_model"
    /\ UNCHANGED <<in_try, original_system, pending, tool_results, model_calls,
                   next_id, system_prompt, response, error, chats, toolVars,
                   tool_requests, sumVars, jsonVars,
                   agentVars, streak>>

\* chat(), line 187: input() raises (end of the input stream).
InputFails ==
    /\ pc = "awaiting_input"
    /\ inputs < MaxInputs
    /\ inputs' = inputs + 1
    /\ error' = "input"
    /\ Propagate
    /\ UNCHANGED <<history, in_try, original_system, pending, tool_results,
                   model_calls, next_id, response, user_input, chats, toolVars,
                   tool_requests, sumVars, jsonVars,
                   agentVars, streak>>

SumIdle ==
    /\ text_len = 0
    /\ chunk_size = DEFAULT_CHUNK_SIZE
    /\ chunk_overlap = DEFAULT_CHUNK_OVERLAP
    /\ entry = "run"
    /\ spc = "start"
    /\ start = 0
    /\ chunks = <<>>
    /\ chunk_summaries = <<>>
    /\ calls = <<>>
    /\ output = NoOutput

Init ==
    /\ ChatIdle
    /\ system_prompt = ClientPrompt
    /\ SumIdle
    /\ client \in Clients
    /\ JsonIdle

Next ==
    \/ ChatStart
    \/ ModelCall
    \/ ModelCallFails
    \/ ExecuteTool
    \/ AppendResults
    \/ EmptyInput
    \/ EndSession
    \/ UserInput
    \/ InputFails

Spec == Init /\ [][Next]_vars

(***************************************************************************)
(* The session started through run(agent_input).                           *)
(***************************************************************************)

\* run, lines 202-205, and chat(), lines 171-183, up to the first model
\* call: run stores agent_input.data_dir and delegates to chat().
Run ==
    /\ pc \in {"idle", "ended", "failed"}
    /\ chats < MaxSessions
    /\ \E agent_input \in [data_dir : Dirs] :
          _data_dir' = agent_input.data_dir
    /\ chats' = chats + 1
    /\ original_system' = system_prompt
    /\ system_prompt' = TrainerPrompt
    /\ tool_schemas' = _get_tool_schemas
    /\ history' = AppendTurn(history,
                             Turn("user", <<TextBlock("Hello, I'm ready to start.")>>))
    /\ pc' = "awaiting_model"
    /\ in_try' = FALSE
    /\ pending' = <<>>
    /\ tool_results' = <<>>
    /\ response' = NoResponse
    /\ user_input' = ""
    /\ error' = "none"
    /\ UNCHANGED <<model_calls, inputs, next_id, toolVars, tool_requests,
                   sumVars, jsonVars, tools, _tool_map, streak>>

NextRun ==
    \/ Run
    \/ ModelCall
    \/ ModelCallFails
    \/ ExecuteTool
    \/ AppendResults
    \/ EmptyInput
    \/ EndSession
    \/ UserInput
    \/ InputFails

SpecRun == Init /\ [][NextRun]_vars

(***************************************************************************)
(* The tools called one at a time, outside a chat session.                 *)
(***************************************************************************)

\* agent._execute_tool(tool_call), called directly by a driver.
DirectCall ==
    /\ pc = "idle"
    /\ Len(executed) < MaxOps
    /\ \E req \in DirectRequests :
        LET tc     == [tool_use_id |-> next_id, tool_name |-> req.tool_name,
                       tool_input |-> req.tool_input]
            result == _execute_tool(tc)
        IN /\ profiles' = result.stores.profiles
           /\ sessions' = result.stores.sessions
           /\ executed' = Append(executed, Execution(tc, result))
           /\ error' = IF result.raised THEN "_execute_tool" ELSE error
    /\ next_id' = next_id + 1
    /\ UNCHANGED <<history, pc, in_try, original_system, pending, tool_results,
                   model_calls, inputs, response, user_input, chats, now,
                   system_prompt, tool_requests, sumVars, jsonVars,
                   agentVars, streak>>

\* A day passes between two calls.
Tick ==
    /\ pc = "idle"
    /\ now < MaxTime
    /\ now' = now + 1
    /\ UNCHANGED <<history, pc, in_try, original_system, pending, tool_results,
                   model_calls, inputs, next_id, response, user_input, error,
                   chats, profiles, sessions, executed, system_prompt, tool_requests, sumVars, jsonVars,
                   agentVars, streak>>

NextTools ==
    \/ DirectCall
    \/ Tick

InitTools == Init /\ client = "AnthropicClient"

SpecTools == InitTools /\ [][NextTools]_vars

(***************************************************************************)
(* _compute_streak applied to a stored session list.                       *)
(***************************************************************************)

\* The session lists a progress file can hold: up to MaxStored sessions,
\* each dated one of the days 0..MaxDay.
StoredSessions ==
    UNION { [1..n -> [date : 0..MaxDay, data : {"s1"}]] : n \in 0..MaxStored }

\* _compute_streak(load_sessions(user_id, data_dir)) for user u1.
ComputeStreak ==
    /\ streak = NoStreak
    /\ streak' = [status |-> "returned",
                  value |-> _compute_streak(load_sessions(Stores, "u1"))]
    /\ UNCHANGED <<sumVars, system_prompt, chatVars, jsonVars, agentVars>>

InitStreak ==
    /\ history = <<>>
    /\ pc = "idle"
    /\ in_try = FALSE
    /\ original_system = ClientPrompt
    /\ pending = <<>>
    /\ tool_results = <<>>
    /\ model_calls = 0
    /\ inputs = 0
    /\ next_id = 1
    /\ response = NoResponse
    /\ user_input = ""
    /\ error = "none"
    /\ chats = 0
    /\ tool_requests = 0
    /\ profiles = [u \in Users |-> NoProfile]
    /\ sessions \in [Users -> StoredSessions]
    /\ sessions["u2"] = <<>>
    /\ now \in 0..MaxDay
    /\ executed = <<>>
    /\ tools = Tools("data")
    /\ _tool_map = ToolMap(tools)
    /\ _data_dir = "data"
    /\ tool_schemas = <<>>
    /\ streak = NoStreak
    /\ system_prompt = ClientPrompt
    /\ SumIdle
    /\ client = "AnthropicClient"
    /\ JsonIdle

NextStreak == ComputeStreak

SpecStreak == InitStreak /\ [][NextStreak]_vars

(***************************************************************************)
(* AnthropicClient.complete_json                                           *)
(* A text is a sequence of tokens: a code fence, a language tag, a line    *)
(* break, a space, the braces of a JSON object and its members.            *)
(***************************************************************************)

Fence == "<fence>"
Tag   == "json"
NL    == "<newline>"
SP    == "<space>"

Whitespace == {NL, SP}

\* The members a JSON object of a reply can have, each with its value.
Members == {"summary", "key_takeaways"}

\* summarize_tool.py, lines 99-109: the schema SummarizeTool.run passes.
SummarizeSchema == [required |-> {"summary", "key_takeaways"}]

TextPart(text) == [kind |-> "text", text |-> text]

\* complete_json, lines 55-59: json_instruction, which embeds the schema.
json_instruction(sch) == [kind |-> "json_instruction", schema |-> sch]

\* base_client.py, lines 14-19; content is a sequence of parts.
Message(role, content) == [role |-> role, content |-> content]

\* The message lists complete_json is called with: up to n messages.
MessageLists(n) ==
    UNION { [1..k -> {Message(role, <<TextPart("prompt")>>) :
                         role \in {"user", "assistant", "system"}}] :
            k \in 0..n }

\* complete_json, lines 61-66: the list handed to self.complete.
Augmented(msgs, sch) ==
    IF msgs # <<>> /\ msgs[Len(msgs)].role = "user"
    THEN [msgs EXCEPT ![Len(msgs)] =
             Message("user", msgs[Len(msgs)].content \o <<json_instruction(sch)>>)]
    ELSE msgs

\* JSON objects as the model writes them: on one line or one member a line.
ObjectOnOneLine(members) == <<"{">> \o members \o <<"}">>

ObjectOnLines(members) ==
    <<"{", NL>>
    \o [i \in 1..(2 * Len(members)) |->
           IF i % 2 = 1 THEN members[(i + 1) \div 2] ELSE NL]
    \o <<"}">>

\* The JSON documents a reply can consist of.
JsonDocuments ==
    { ObjectOnOneLine(<<"summary", "key_takeaways">>),
      ObjectOnLines(<<"summary", "key_takeaways">>),
      ObjectOnOneLine(<<"summary">>),
      ObjectOnOneLine(<<>>) }

\* d wrapped in markdown code fences.
Fenced(d, tagged, break_after, break_before) ==
    <<Fence>>
    \o (IF tagged THEN <<Tag>> ELSE <<>>)
    \o (IF break_after THEN <<NL>> ELSE <<>>)
    \o d
    \o (IF break_before THEN <<NL>> ELSE <<>>)
    \o <<Fence>>

\* The replies self.complete can return: a JSON document bare, padded with
\* whitespace or fenced, prose, or nothing.
Replies ==
    JsonDocuments
    \cup { <<NL>> \o d \o <<SP, NL>> : d \in JsonDocuments }
    \cup { Fenced(d, t, a, b) : d \in JsonDocuments, t \in BOOLEAN,
                                a \in BOOLEAN, b \in BOOLEAN }
    \cup { <<"Here is the summary">>, <<>> }

\* str.strip()
str_strip(s) ==
    LET keep == {i \in 1..Len(s) : s[i] \notin Whitespace}
    IN  IF keep = {} THEN <<>>
        ELSE SubSeq(s, CHOOSE i \in keep : \A j \in keep : i <= j,
                       CHOOSE i \in keep : \A j \in keep : i >= j)

\* str.startswith(prefix) for a one-token prefix
startswith(s, prefix) == s # <<>> /\ s[1] = prefix

\* s.split(sep, 1)[-1]
AfterFirst(s, sep) ==
    LET at == {i \in 1..Len(s) : s[i] = sep}
    IN  IF at = {} THEN s
        ELSE SubSeq(s, (CHOOSE i \in at : \A j \in at : i <= j) + 1, Len(s))

\* s.rsplit(sep, 1)[0]
BeforeLast(s, sep) ==
    LET at == {i \in 1..Len(s) : s[i] = sep}
    IN  IF at = {} THEN s
        ELSE SubSeq(s, 1, (CHOOSE i \in at : \A j \in at : i >= j) - 1)

Returned(value) == [status |-> "returned", value |-> value]
Failed(err)     == [status |-> "raised", error |-> err]

\* json.loads: whitespace between tokens is insignificant; the value of an
\* object is given by the set of its members.
json_loads(s) ==
    LET t == SelectSeq(s, LAMBDA x : x \notin Whitespace)
    IN  IF /\ Len(t) >= 2
           /\ t[1] = "{"
           /\ t[Len(t)] = "}"
           /\ \A i \in 2..(Len(t) - 1) : t[i] \in Members
        THEN Returned({t[i] : i \in 2..(Len(t) - 1)})
        ELSE Failed("JSONDecodeError")

\* complete_json, lines 70-74: the fences are stripped.
StripFences(reply) ==
    LET stripped == str_strip(reply)
    IN  IF startswith(stripped, Fence)
        THEN BeforeLast(AfterFirst(stripped, NL), Fence)
        ELSE stripped

\* complete_json, lines 70-76, on the reply self.complete returned.
ParseReply(reply) == json_loads(StripFences(reply))

\* A parsed value has every member the schema requires.
Conforms(value, sch) == sch.required \subseteq value

\* complete_json, lines 55-68: the conversation is built and sent.
CompleteJsonCall ==
    /\ jpc = "start"
    /\ sent' = Augmented(messages, schema)
    /\ json_requests' = json_requests + 1
    /\ jpc' = "awaiting_reply"
    /\ UNCHANGED <<client, messages, schema, raw, json_result, system_prompt,
                   sumVars, chatVars,
                   agentVars, streak>>

\* complete_json, lines 68-76: self.complete returns and the reply is parsed.
CompleteJsonReturn ==
    /\ jpc = "awaiting_reply"
    /\ \E reply \in Replies :
        /\ raw' = reply
        /\ json_result' = ParseReply(reply)
        /\ jpc' = ParseReply(reply).status
    /\ UNCHANGED <<client, messages, schema, sent, json_requests, system_prompt,
                   sumVars, chatVars,
                   agentVars, streak>>

\* complete_json, line 68: self.complete raises.
CompleteFails ==
    /\ jpc = "awaiting_reply"
    /\ json_result' = Failed("APIError")
    /\ jpc' = "raised"
    /\ UNCHANGED <<client, messages, schema, sent, raw, json_requests,
                   system_prompt, sumVars, chatVars,
                   agentVars, streak>>

InitJson ==
    /\ ChatIdle
    /\ system_prompt = ClientPrompt
    /\ SumIdle
    /\ client = "AnthropicClient"
    /\ messages \in MessageLists(MaxMessages)
    /\ schema = SummarizeSchema
    /\ sent = <<>>
    /\ raw = <<>>
    /\ json_result = [status |-> "none"]
    /\ json_requests = 0
    /\ jpc = "start"

NextJson ==
    \/ CompleteJsonCall
    \/ CompleteJsonReturn
    \/ CompleteFails

SpecJson == InitJson /\ [][NextJson]_vars

(***************************************************************************)
(* Properties of GymTrainerAgent, checked under Spec.                      *)
(***************************************************************************)

\* The tool_result blocks of `results` that carry the identifier `id`.
ResultsFor(results, id) ==
    SelectSeq(results, LAMBDA r : r.type = "tool_result" /\ r.tool_use_id = id)

\* Turn i, a tool request, is followed by a user turn holding exactly one
\* tool_result per requested call, correlated by tool_use_id.
AnsweredAt(i) ==
    /\ i < Len(history)
    /\ history[i + 1].role = "user"
    /\ LET uses    == ToolUses(history[i])
           results == history[i + 1].content
       IN /\ Len(results) = Len(uses)
          /\ \A j \in 1..Len(results) : results[j].type = "tool_result"
          /\ \A j \in 1..Len(uses) : Len(ResultsFor(results, uses[j].id)) = 1

\* C1: every tool-requesting assistant turn of the history is immediately
\* followed by one user turn with exactly one tool_result per requested call,
\* each carrying the tool_use_id of its request; such a turn is the last turn
\* only while its calls are being dispatched, never when a model call is
\* issued or the input prompt is reached.
C1_ToolRequestsAnswered ==
    \A i \in 1..Len(history) :
        IsToolRequest(history[i]) =>
            IF i = Len(history) THEN pc = "dispatching" ELSE AnsweredAt(i)

C1_Witness ==
    /\ pc = "awaiting_input"
    /\ \E i \in 1..Len(history) :
          /\ IsToolRequest(history[i])
          /\ Len(ToolUses(history[i])) = 2
          /\ AnsweredAt(i)

\* A request _execute_tool cannot serve: an unregistered tool name, an input
\* the tool's schema rejects, or an input on which tool.run raises.
IsBadRequest(name, input) ==
    name \notin ToolNames \/ input.shape \in {"malformed", "run_raises"}

IsErrorDescriptor(json) == "error" \in DOMAIN json

\* C2: _execute_tool never raises: no exception leaves the dispatch of a
\* tool-requesting turn, and a call naming an unregistered tool, a call whose
\* input fails the schema and a call whose tool.run raises each yield an
\* error descriptor, paired with the call's tool_use_id.
C2_ExecuteToolNeverRaises ==
    /\ pc = "failed" => pending = <<>>
    /\ \A i \in 1..Len(history) :
          IsToolRequest(history[i]) =>
              LET uses    == ToolUses(history[i])
                  results == IF i = Len(history) THEN tool_results
                             ELSE history[i + 1].content
              IN  \A j \in 1..Len(uses) :
                      (j <= Len(results) \/ i < Len(history)) =>
                          /\ Len(ResultsFor(results, uses[j].id)) = 1
                          /\ IsBadRequest(uses[j].name, uses[j].input) =>
                                IsErrorDescriptor(
                                    ResultsFor(results, uses[j].id)[1].content)

C2_Witness ==
    /\ pc = "awaiting_model"
    /\ Len(history) >= 3
    /\ LET i       == Len(history) - 1
           uses    == ToolUses(history[i])
           results == history[i + 1].content
       IN /\ IsToolRequest(history[i])
          /\ Len(uses) = 2 /\ Len(results) = 2
          /\ uses[1].input.shape = "malformed"
          /\ uses[2].input.shape = "run_raises"
          /\ IsErrorDescriptor(results[1].content)
          /\ IsErrorDescriptor(results[2].content)
          /\ results[1].tool_use_id = uses[1].id
          /\ results[2].tool_use_id = uses[2].id

\* The results of the tool-requesting turn history[i]: the user turn after
\* it, or the local tool_results while its calls are being dispatched.
ResultsOfTurn(i) ==
    IF i = Len(history) THEN tool_results ELSE history[i + 1].content

\* The direct _execute_tool calls and model turns the log records, by
\* tool_use_id.
ExecutionsOf(id) == SelectSeq(executed, LAMBDA e : e.tool_use_id = id)

\* C11: on a "tool_use" outcome the assistant turn is appended before any of
\* its calls is executed; the calls are executed one at a time in the order
\* received (the k-th execution of the log is the k-th call requested, and
\* while dispatching the results collected so far answer the first calls and
\* the calls still to execute are the rest, in order); one user turn then
\* carries the tool_result entries in the order of the requests; and a model
\* call is issued only once that user turn is the last turn of the history.
C11_ToolsExecutedInOrder ==
    /\ \A k \in 1..Len(executed) : executed[k].tool_use_id = k
    /\ pc = "dispatching" =>
          LET uses == ToolUses(history[Len(history)])
              n    == Len(tool_results)
          IN  /\ IsToolRequest(history[Len(history)])
              /\ n + Len(pending) = Len(uses)
              /\ Len(executed) = uses[1].id + n - 1
              /\ \A j \in 1..n : tool_results[j].tool_use_id = uses[j].id
              /\ \A j \in 1..Len(pending) :
                    pending[j].tool_use_id = uses[n + j].id
    /\ \A i \in 1..(Len(history) - 1) :
          IsToolRequest(history[i]) =>
              LET uses    == ToolUses(history[i])
                  results == history[i + 1].content
              IN  /\ history[i + 1].role = "user"
                  /\ Len(results) = Len(uses)
                  /\ \A j \in 1..Len(uses) :
                        /\ results[j].type = "tool_result"
                        /\ results[j].tool_use_id = uses[j].id
    /\ pc = "awaiting_model" =>
          /\ history[Len(history)].role = "user"
          /\ Len(executed) = next_id - 1

C11_Witness ==
    /\ pc = "awaiting_input"
    /\ model_calls = 2
    /\ Len(history) = 4
    /\ IsToolRequest(history[2])
    /\ Len(ToolUses(history[2])) = 2
    /\ Len(history[3].content) = 2
    /\ Len(executed) = 2

\* C12: on an "end_turn" outcome the loop appends one assistant turn whose
\* content is the outcome's raw_content, unchanged, executes no tool and
\* reaches the input prompt; at the input prompt no model call is issued and
\* no tool is executed.
C12_EndTurnReturnsToPrompt ==
    [][ /\ ( /\ pc = "awaiting_model"
             /\ model_calls' = model_calls + 1
             /\ error' = "none"
             /\ response'.stop_reason = "end_turn" )
            => /\ history' = Append(history,
                                    [role |-> "assistant",
                                     content |-> response'.raw_content])
               /\ pc' = "awaiting_input"
               /\ executed' = executed
               /\ pending' = <<>>
        /\ pc = "awaiting_input"
            => /\ model_calls' = model_calls
               /\ executed' = executed ]_vars

C12_Witness ==
    /\ pc = "awaiting_input"
    /\ response.stop_reason = "end_turn"
    /\ Len(response.raw_content) = 2
    /\ history[Len(history)] =
          [role |-> "assistant", content |-> response.raw_content]

\* The stripped lines that are an end-of-session signal, in any case.
EndSignalLines == {"exit", "quit", "bye", "QUIT", "Bye"}

\* A step of chat() that read one line from the driver.
LineRead == pc = "awaiting_input" /\ inputs' = inputs + 1 /\ error' = "none"

\* Nothing is appended, no model call is issued and no tool is executed.
SessionQuiet == UNCHANGED <<history, model_calls, executed>>

\* C13 as stated: at the input prompt every driver text that is not an
\* end-of-session signal is appended as one user turn and followed by a
\* model call, and an end-of-session signal ends the session, after which
\* nothing is appended or called.
C13_EveryTextAppended ==
    [][ /\ (LineRead /\ user_input' \notin EndSignalLines)
            => /\ Len(history') = Len(history) + 1
               /\ history'[Len(history')].role = "user"
               /\ pc' = "awaiting_model"
        /\ (LineRead /\ user_input' \in EndSignalLines)
            => pc' = "ended" /\ SessionQuiet
        /\ (pc = "ended" /\ chats' = chats) => SessionQuiet ]_vars

\* C13, amended: at the input prompt a line that is empty once stripped of
\* surrounding whitespace is skipped (no turn, no model call, the prompt
\* again); a stripped line that is "exit", "quit" or "bye" in any case ends
\* the session, after which that session appends no turn and makes no model
\* call or tool execution; any other line is appended, stripped, as one user
\* turn and followed by a model call.
C13_InputHandling ==
    [][ /\ (LineRead /\ user_input' = "")
            => pc' = "awaiting_input" /\ SessionQuiet
        /\ (LineRead /\ user_input' \in EndSignalLines)
            => pc' = "ended" /\ SessionQuiet
        /\ (LineRead /\ user_input' # "" /\ user_input' \notin EndSignalLines)
            => /\ history' = Append(history,
                                    [role |-> "user",
                                     content |-> <<TextBlock(user_input')>>])
               /\ pc' = "awaiting_model"
        /\ (pc = "ended" /\ chats' = chats) => SessionQuiet ]_vars

C13_Witness ==
    /\ pc = "ended"
    /\ user_input = "QUIT"
    /\ inputs = 2
    /\ Len(history) = 4
    /\ history[3] = [role |-> "user", content |-> <<TextBlock("Hello")>>]

\* C14: when complete_with_tools raises, the exception leaves the loop and
\* chat(): the step that raises appends no turn, and until chat() is called
\* again no turn is appended, no model call is issued and no tool is
\* executed.
C14_ModelFailureEndsSession ==
    [][ /\ (pc = "awaiting_model" /\ error' = "complete_with_tools")
            => pc' = "failed" /\ history' = history /\ executed' = executed
        /\ (error = "complete_with_tools" /\ chats' = chats)
            => SessionQuiet /\ pc' = "failed" ]_vars

C14_Witness ==
    /\ pc = "failed"
    /\ error = "complete_with_tools"
    /\ model_calls = 2
    /\ Len(history) = 3
    /\ tool_results = <<>>

\* h is a prefix of g.
IsPrefix(h, g) == Len(h) <= Len(g) /\ SubSeq(g, 1, Len(h)) = h

\* C15: the history is append-only: every step leaves the history it found
\* as a prefix of the history it leaves.
C15_HistoryAppendOnly == [][IsPrefix(history, history')]_vars

C15_Witness ==
    /\ pc = "awaiting_model"
    /\ Len(history) = 5
    /\ IsToolRequest(history[2])
    /\ user_input = "Hello"

\* C16: the first model call of every chat() call, a second call on the same
\* agent included, sees a history of exactly one turn, the greeting.
C16_SessionStartsFresh ==
    (pc = "awaiting_model" /\ response = NoResponse) =>
        history = <<[role |-> "user",
                     content |-> <<TextBlock("Hello, I'm ready to start.")>>]>>

\* The requests of history[i] that name an unregistered tool, by position.
UnknownToolCalls(i) ==
    {j \in 1..Len(ToolUses(history[i])) :
        /\ ToolUses(history[i])[j].name \notin ToolNames
        /\ j <= Len(ResultsOfTurn(i))}

\* C17 as stated: the payload of the result of a call naming an unregistered
\* tool is {error: "unknown capability: <name>"}.
C17_UnknownCapabilityMessage ==
    \A i \in 1..Len(history) :
        IsToolRequest(history[i]) =>
            \A j \in UnknownToolCalls(i) :
                ResultsOfTurn(i)[j].content =
                    [error |-> <<"unknown capability", ToolUses(history[i])[j].name>>]

\* C17, amended: the payload is {error: "Unknown tool: <name>"}; the call
\* raises nothing out of the dispatch, runs no tool, and its result is an
\* ordinary tool_result under the tool_use_id of the call.
C17_UnknownToolMessage ==
    /\ error # "_execute_tool"
    /\ \A i \in 1..Len(history) :
          IsToolRequest(history[i]) =>
              \A j \in UnknownToolCalls(i) :
                  LET use == ToolUses(history[i])[j]
                      res == ResultsOfTurn(i)[j]
                  IN  /\ res.type = "tool_result"
                      /\ res.tool_use_id = use.id
                      /\ res.content = [error |-> <<"Unknown tool", use.name>>]
                      /\ executed[use.id].runs = 0

C17_Witness ==
    /\ pc = "awaiting_input"
    /\ Len(history) = 4
    /\ IsToolRequest(history[2])
    /\ ToolUses(history[2])[1].name = "CalendarTool"
    /\ history[3].role = "user"
    /\ history[3].content[1].content = [error |-> <<"Unknown tool", "CalendarTool">>]

\* C18: in every answered tool-requesting turn each call was executed
\* exactly once, the user turn holds as many results as there were requests,
\* each under the tool_use_id of its request, and a result is error-shaped
\* exactly when its own request is unregistered, malformed or failing,
\* whatever the other requests of the turn are.
C18_CallsIndependent ==
    \A i \in 1..(Len(history) - 1) :
        IsToolRequest(history[i]) =>
            LET uses    == ToolUses(history[i])
                results == history[i + 1].content
            IN  /\ Len(results) = Len(uses)
                /\ \A j \in 1..Len(uses) :
                      /\ Len(ExecutionsOf(uses[j].id)) = 1
                      /\ j <= Len(results)
                      /\ results[j].tool_use_id = uses[j].id
                      /\ IsErrorDescriptor(results[j].content)
                            <=> IsBadRequest(uses[j].name, uses[j].input)

C18_Witness ==
    /\ pc = "awaiting_model"
    /\ Len(history) = 3
    /\ LET uses    == ToolUses(history[2])
           results == history[3].content
       IN /\ Len(uses) = 2 /\ Len(results) = 2
          /\ uses[1].name \notin ToolNames
          /\ ~IsBadRequest(uses[2].name, uses[2].input)
          /\ IsErrorDescriptor(results[1].content)
          /\ ~IsErrorDescriptor(results[2].content)
          /\ profiles["u1"] # NoProfile

\* The turn chat() opens every session with.
Greeting ==
    [role |-> "user", content |-> <<TextBlock("Hello, I'm ready to start.")>>]

Executes == Len(executed') = Len(executed) + 1

\* The call the step made.
LastExecuted == executed'[Len(executed')]

\* C19: every _execute_tool call invokes tool.run at most once; it invokes
\* it zero times, and leaves the persisted stores as they were, when the
\* tool name is not registered or the input fails the tool's input schema.
C19_ValidatedBeforeRun ==
    [][ Executes =>
          /\ LastExecuted.runs <= 1
          /\ ( \/ LastExecuted.tool_name \notin ToolNames
               \/ LastExecuted.tool_input.shape = "malformed" )
              => /\ LastExecuted.runs = 0
                 /\ profiles' = profiles
                 /\ sessions' = sessions ]_vars

C19_Witness ==
    /\ Len(executed) = 2
    /\ executed[1].tool_name = "ProgressTrackerTool"
    /\ executed[1].tool_input.shape = "malformed"
    /\ executed[1].runs = 0
    /\ executed[2].tool_name = "ProgressTrackerTool"
    /\ executed[2].tool_input.shape = "valid"
    /\ executed[2].runs = 1
    /\ Len(sessions[executed[2].tool_input.user_id]) = 1

\* C20: invoking a persisting tool (UserProfileTool, ProgressTrackerTool)
\* again with the input of the call before it leaves the persisted stores as
\* the first invocation left them.
C20_RetryLeavesStores ==
    [][ ( /\ Executes
          /\ executed # <<>>
          /\ LastExecuted.tool_name \in {"UserProfileTool", "ProgressTrackerTool"}
          /\ LastExecuted.tool_name = executed[Len(executed)].tool_name
          /\ LastExecuted.tool_input = executed[Len(executed)].tool_input
          /\ executed[Len(executed)].runs = 1 )
        => /\ profiles' = profiles
           /\ sessions' = sessions ]_vars

\* The calls of the log that saved a profile for user u.
ProfileSaves(u) ==
    SelectSeq(executed, LAMBDA e :
        /\ e.tool_name = "UserProfileTool" /\ e.runs = 1
        /\ e.tool_input.action = "save" /\ e.tool_input.data # "missing"
        /\ e.tool_input.user_id = u)

\* The calls of the log that saved a session for user u.
SessionSaves(u) ==
    SelectSeq(executed, LAMBDA e :
        /\ e.tool_name = "ProgressTrackerTool" /\ e.runs = 1
        /\ e.tool_input.user_id = u)

\* The stores hold what the saves of the log put there.
StoresMatchSaves ==
    \A u \in Users :
        /\ IF ProfileSaves(u) = <<>> THEN profiles[u] = NoProfile
           ELSE /\ profiles[u] # NoProfile
                /\ profiles[u].user_id = u
                /\ profiles[u].data =
                      ProfileSaves(u)[Len(ProfileSaves(u))].tool_input.data
        /\ Len(load_sessions(Stores, u)) = Len(SessionSaves(u))
        /\ \A i \in 1..Len(SessionSaves(u)) :
              load_sessions(Stores, u)[i].data = SessionSaves(u)[i].tool_input.data

\* C25: after any sequence of saves the profile store holds for each user
\* the last profile saved for that user, if any, and nothing else;
\* load_sessions(user_id) returns the sessions saved for that user, all of
\* them, in the order saved; and a call for one user leaves the records of
\* every other user as they were.
C25_StoresPerUser ==
    /\ []StoresMatchSaves
    /\ [][ Executes =>
             \A v \in Users \ {LastExecuted.tool_input.user_id} :
                 profiles'[v] = profiles[v] /\ sessions'[v] = sessions[v] ]_vars

C25_Witness ==
    /\ Len(sessions["u1"]) = 2
    /\ sessions["u1"][1].data = "s2"
    /\ sessions["u1"][2].data = "s1"
    /\ profiles["u2"] # NoProfile
    /\ profiles["u1"] = NoProfile
    /\ sessions["u2"] = <<>>

\* C26: a load for a user whose profile was never saved is a not-found
\* outcome: load_profile finds no file, and UserProfileTool.run with
\* action "load" returns success False and no profile, whatever other users
\* have saved; load_sessions for a user with no saved session returns the
\* empty list.
C26_NotFoundIsDistinct ==
    /\ \A u \in Users :
          /\ ProfileSaves(u) = <<>> => load_profile(Stores, u) = NoProfile
          /\ SessionSaves(u) = <<>> => load_sessions(Stores, u) = <<>>
    /\ \A k \in 1..Len(executed) :
          LET e == executed[k] IN
          ( /\ e.tool_name = "UserProfileTool"
            /\ e.tool_input.shape = "valid"
            /\ e.tool_input.action = "load"
            /\ \A j \in 1..(k - 1) :
                  ~ ( /\ executed[j].tool_name = "UserProfileTool"
                      /\ executed[j].runs = 1
                      /\ executed[j].tool_input.action = "save"
                      /\ executed[j].tool_input.data # "missing"
                      /\ executed[j].tool_input.user_id = e.tool_input.user_id ) )
          => e.json = [success |-> FALSE, profile |-> NoProfile]

C26_Witness ==
    /\ Len(executed) = 2
    /\ executed[1].tool_name = "UserProfileTool"
    /\ executed[1].tool_input.action = "save"
    /\ executed[1].tool_input.user_id = "u1"
    /\ profiles["u1"] # NoProfile
    /\ executed[2].tool_name = "UserProfileTool"
    /\ executed[2].tool_input.action = "load"
    /\ executed[2].tool_input.shape = "valid"
    /\ executed[2].tool_input.user_id = "u2"
    /\ executed[2].json = [success |-> FALSE, profile |-> NoProfile]

(***************************************************************************)
(* Properties of complete_json, checked under SpecJson.                    *)
(***************************************************************************)

\* complete_json has returned or raised.
JsonCallOver == jpc \in {"returned", "raised"}

\* C21: complete_json returns only values that conform to the schema (a
\* reply that is not JSON, or is JSON lacking a required member, makes it
\* raise), and it makes exactly one backend request.
C21_OnlyConformingValues ==
    /\ jpc = "returned" => Conforms(json_result.value, schema)
    /\ JsonCallOver => json_requests = 1

\* C22: a reply that is a JSON document wrapped in code fences, with or
\* without a language tag and with or without a line break after the
\* opening fence, is parsed to the value of the document alone.
C22_FencedParsedAsBare ==
    JsonCallOver =>
        \A d \in JsonDocuments, t \in BOOLEAN, a \in BOOLEAN, b \in BOOLEAN :
            raw = Fenced(d, t, a, b) => json_result = json_loads(d)

\* The parts of the conversation sent that are the JSON-only instruction.
InstructionsSent ==
    {<<i, k>> \in (1..Len(sent)) \X (1..2) :
        /\ k <= Len(sent[i].content)
        /\ sent[i].content[k].kind = "json_instruction"}

\* C23: whatever the message list (its last message from the user or not,
\* or no message at all), the conversation complete_json sends ends with
\* the JSON-only instruction containing the schema.
C23_InstructionAlwaysSent ==
    jpc # "start" =>
        \E p \in InstructionsSent :
            /\ p[1] = Len(sent)
            /\ sent[p[1]].content[p[2]] = json_instruction(schema)

(***************************************************************************)
(* Properties of SummarizeAgent, checked under SpecSum.                    *)
(***************************************************************************)

\* _chunk_text has returned its list of chunks.
ChunkingComplete ==
    \/ spc \in {"summarizing", "returned"}
    \/ spc \in {"done", "raised"} /\ _needs_chunking(text_len)

\* 0 <= chunk_overlap < chunk_size
ValidOverlap == 0 <= chunk_overlap /\ chunk_overlap < chunk_size

CeilDiv(a, b) == (a + b - 1) \div b

ChunkCalls == SelectSeq(calls, LAMBDA c : c.tool = "SummarizeTool" /\ c.is_chunk)
MergeCalls == SelectSeq(calls, LAMBDA c : c.tool = "MergeSummariesTool")
FailedCalls == SelectSeq(calls, LAMBDA c : c.outcome # "ok")

\* C3: for a text longer than chunk_size and 0 <= chunk_overlap < chunk_size,
\* the chunks of _chunk_text cover [0, len) with no gap: the first starts at
\* 0, each next one starts at or before the end of the previous one, and the
\* last ends at len.
C3_ChunksCoverText ==
    (ChunkingComplete /\ text_len > chunk_size /\ ValidOverlap) =>
        /\ Len(chunks) >= 1
        /\ chunks[1].lo = 0
        /\ \A k \in 1..(Len(chunks) - 1) : chunks[k + 1].lo <= chunks[k].hi
        /\ chunks[Len(chunks)].hi = text_len

C3_Witness ==
    /\ ChunkingComplete /\ text_len > chunk_size /\ ValidOverlap
    /\ chunk_overlap > 0
    /\ Len(chunks) >= 3

\* C4: for a text longer than chunk_size and 0 <= chunk_overlap < chunk_size,
\* every two consecutive chunks share exactly chunk_overlap characters (end
\* of chunk k minus start of chunk k+1), and only the final chunk may be
\* shorter than chunk_size.
C4_ExactOverlap ==
    (ChunkingComplete /\ text_len > chunk_size /\ ValidOverlap) =>
        /\ \A k \in 1..(Len(chunks) - 1) :
              chunks[k].hi - chunks[k + 1].lo = chunk_overlap
        /\ \A k \in 1..(Len(chunks) - 1) :
              chunks[k].hi - chunks[k].lo = chunk_size

\* C5: for 0 <= chunk_overlap < chunk_size, _chunk_text produces
\* max(1, ceil((len - chunk_overlap) / (chunk_size - chunk_overlap))) chunks.
C5_ChunkCount ==
    (ChunkingComplete /\ ValidOverlap) =>
        Len(chunks) =
            Max(1, CeilDiv(text_len - chunk_overlap, chunk_size - chunk_overlap))

\* C6: a configuration with chunk_overlap >= chunk_size is rejected before
\* any chunk is produced and before any summarization call is made.
C6_InvalidOverlapRejected ==
    (chunk_overlap >= chunk_size) => (chunks = <<>> /\ calls = <<>>)

\* C7: for a text of at most chunk_size characters (the empty text too), run
\* produces no chunk, calls no merge tool, and makes exactly one SummarizeTool
\* call, in whole-document mode, whose result it returns.
C7_ShortTextOneDirectCall ==
    (entry = "run" /\ text_len <= chunk_size) =>
        /\ chunks = <<>>
        /\ spc \notin {"chunking", "summarizing"}
        /\ \A i \in 1..Len(calls) :
              /\ calls[i].tool = "SummarizeTool"
              /\ ~calls[i].is_chunk
              /\ calls[i].text = WholeText
        /\ Len(calls) = (IF spc \in {"done", "raised"} THEN 1 ELSE 0)
        /\ (spc = "done" /\ calls[1].outcome = "ok") =>
              /\ output.status = "success"
              /\ output.summary = Reply(WholeText).summary
              /\ output.key_takeaways = Reply(WholeText).key_takeaways

C7_Witness ==
    /\ entry = "run" /\ text_len = 0 /\ spc = "done"
    /\ Len(calls) = 1 /\ output.status = "success"

\* C8: in the chunked path the merge tool is invoked at most once, only
\* after the summarization call of every chunk has completed, exactly once
\* when they all succeeded and the run has returned, and never when a chunk
\* summarization failed.
C8_MergeAfterAllChunks ==
    /\ Len(MergeCalls) <= 1
    /\ Len(MergeCalls) = 1 =>
          /\ calls[Len(calls)].tool = "MergeSummariesTool"
          /\ ChunkingComplete
          /\ Len(ChunkCalls) = Len(chunks)
          /\ \A i \in 1..Len(ChunkCalls) :
                /\ ChunkCalls[i].outcome = "ok"
                /\ ChunkCalls[i].text = ChunkInput(chunks[i])
    /\ (\E i \in 1..Len(ChunkCalls) : ChunkCalls[i].outcome # "ok") =>
          Len(MergeCalls) = 0
    /\ (/\ spc = "done" /\ _needs_chunking(text_len)
        /\ \A i \in 1..Len(ChunkCalls) : ChunkCalls[i].outcome = "ok") =>
          Len(MergeCalls) = 1

C8_Witness ==
    /\ spc = "done" /\ Len(chunks) >= 3 /\ Len(MergeCalls) = 1
    /\ Len(ChunkCalls) = Len(chunks)

\* The scenario of C9: 10,000 characters, chunk_size 3000, chunk_overlap 200.
Scenario ==
    /\ entry = "run"
    /\ text_len = 10000
    /\ chunk_size = DEFAULT_CHUNK_SIZE
    /\ chunk_overlap = DEFAULT_CHUNK_OVERLAP

ScenarioBoundaries ==
    <<[lo |-> 0, hi |-> 3000], [lo |-> 2800, hi |-> 5800],
      [lo |-> 5600, hi |-> 8600], [lo |-> 8400, hi |-> 10000]>>

\* The one merge call consumes the summary of every chunk, labelled in order.
OneMergeOfAllSummaries ==
    (spc = "done" /\ output.status = "success") =>
        /\ Len(MergeCalls) = 1
        /\ MergeCalls[1].text.kind = "combined"
        /\ LET entries == MergeCalls[1].text.entries IN
            /\ Len(entries) = Len(chunks)
            /\ \A i \in 1..Len(entries) :
                  entries[i] = Label(i, Len(chunks),
                                     Reply(ChunkInput(chunks[i])).summary)

\* C9 as stated: the scenario produces 5 chunks, with boundaries 0-3000,
\* 2800-5800, 5600-8600 and 8400-10000, and one merge call consuming all
\* chunk summaries.
C9_FiveChunks ==
    (Scenario /\ ChunkingComplete) =>
        /\ Len(chunks) = 5
        /\ \A i \in 1..4 : chunks[i] = ScenarioBoundaries[i]
        /\ OneMergeOfAllSummaries

\* C9 amended: the scenario produces 4 chunks, with boundaries 0-3000,
\* 2800-5800, 5600-8600 and 8400-10000, and one merge call consuming all
\* chunk summaries.
C9_FourChunks ==
    (Scenario /\ ChunkingComplete) =>
        /\ chunks = ScenarioBoundaries
        /\ OneMergeOfAllSummaries

C9_Witness ==
    /\ Scenario /\ spc = "done" /\ output.status = "success"
    /\ Len(MergeCalls) = 1

\* C10: run never raises; when a summarization or merge call fails it
\* returns status failed with no key takeaways and no summary content, and
\* it returns status success only when every call it made succeeded.
C10_RunNeverRaises ==
    /\ spc # "raised"
    /\ spc = "done" =>
          /\ output.status \in {"success", "failed"}
          /\ output.original_content_size = text_len
          /\ Len(FailedCalls) > 0 =>
                /\ output.status = "failed"
                /\ output.key_takeaways = <<>>
                /\ output.summary.kind = "failure"
          /\ output.status = "success" <=> Len(FailedCalls) = 0
    /\ Len(FailedCalls) > 0 => spc \in {"done", "raised"}

C10_Witness ==
    /\ spc = "done" /\ output.status = "failed"
    /\ Len(calls) >= 2
    /\ calls[Len(calls)].outcome = "missing_field"

\* C27: the text given to the merge tool is one entry per chunk, in chunk
\* order: the i-th entry is labelled "Chunk i of N", N the number of chunks,
\* and holds the summary the i-th chunk call returned for the i-th chunk.
C27_MergeInputLabelled ==
    \A m \in 1..Len(MergeCalls) :
        LET entries == MergeCalls[m].text.entries
            N       == Len(chunks)
        IN  /\ MergeCalls[m].text.kind = "combined"
            /\ Len(entries) = N
            /\ Len(ChunkCalls) = N
            /\ \A i \in 1..N :
                  /\ entries[i].index = i
                  /\ entries[i].total = N
                  /\ ChunkCalls[i].text = ChunkInput(chunks[i])
                  /\ entries[i].summary = Reply(ChunkCalls[i].text).summary

C27_Witness ==
    /\ spc = "done" /\ output.status = "success"
    /\ Len(chunks) = 3
    /\ Len(MergeCalls) = 1
    /\ MergeCalls[1].text.entries[3].index = 3
    /\ MergeCalls[1].text.entries[3].total = 3

\* chunk c lies entirely inside chunk d.
Inside(c, d) == d.lo <= c.lo /\ c.hi <= d.hi

\* C28: for 0 <= chunk_overlap < chunk_size and a text that is not empty,
\* exactly one chunk of _chunk_text ends at len(text), the last one, and no
\* chunk lies entirely inside the chunk before it.
C28_StopsAtEndOfText ==
    (ChunkingComplete /\ ValidOverlap /\ text_len > 0) =>
        /\ Len(chunks) >= 1
        /\ \A k \in 1..Len(chunks) :
              chunks[k].hi = text_len <=> k = Len(chunks)
        /\ \A k \in 1..(Len(chunks) - 1) : ~Inside(chunks[k + 1], chunks[k])

\* C29: with chunk_overlap < chunk_size every iteration of the loop of
\* _chunk_text moves start forward, and the loop ends: it produces at most
\* ceil(len / (chunk_size - chunk_overlap)) chunks and then returns.
C29_PositiveStrideTerminates ==
    /\ [][ (chunk_overlap < chunk_size /\ Len(chunks') = Len(chunks) + 1)
            => start' > start ]_vars
    /\ [](chunk_overlap < chunk_size =>
             Len(chunks) <= CeilDiv(text_len, chunk_size - chunk_overlap))
    /\ (chunk_overlap < chunk_size /\ spc = "chunking") ~> (spc # "chunking")

C29_Witness ==
    /\ chunk_overlap < 0
    /\ spc = "returned"
    /\ Len(chunks) >= 3
    /\ start >= text_len

\* C30: for every configuration with chunk_overlap < chunk_size, a negative
\* chunk_overlap included, the chunks of a text that is not empty cover
\* [0, len) with no gap.
C30_CoverageWithoutLowerBound ==
    (ChunkingComplete /\ chunk_overlap < chunk_size /\ text_len > 0) =>
        /\ Len(chunks) >= 1
        /\ chunks[1].lo = 0
        /\ \A k \in 1..(Len(chunks) - 1) : chunks[k + 1].lo <= chunks[k].hi
        /\ chunks[Len(chunks)].hi = text_len

(***************************************************************************)
(* Further properties of the chat session, checked under Spec.             *)
(***************************************************************************)

\* A step of _run_agentic_loop in which complete_with_tools returned.
ModelReplied ==
    /\ pc = "awaiting_model"
    /\ model_calls' = model_calls + 1
    /\ error' = "none"

\* C31: every iteration of _run_agentic_loop makes progress: whatever
\* stop_reason the reply carries, the iteration appends the model's turn to
\* the history or leaves the loop; none leaves the history as it was and
\* goes back to issue the same model call.
C31_EveryIterationProgresses ==
    [][ ModelReplied => (history' # history \/ pc' # "awaiting_model") ]_vars

\* C32: the roles of the history alternate, starting with a user turn: no
\* two consecutive turns have the same role, every complete_with_tools call
\* is issued on a history that ends with a user turn, and at the input
\* prompt the history ends with an assistant turn.
C32_RolesAlternate ==
    /\ history # <<>> => history[1].role = "user"
    /\ \A i \in 1..(Len(history) - 1) : history[i].role # history[i + 1].role
    /\ pc = "awaiting_model" => history[Len(history)].role = "user"
    /\ pc = "awaiting_input" => history[Len(history)].role = "assistant"

\* C33: on every exit path of chat(), the user ending the session, a model
\* call failing during the conversation or the greeting model call failing,
\* config.system_prompt is the value it had before chat() was called.
C33_PromptRestoredOnExit ==
    pc \in {"ended", "failed"} => system_prompt = original_system

\* The names _get_tool_schemas advertised to the model.
AdvertisedNames == {tool_schemas[i].name : i \in 1..Len(tool_schemas)}

\* C36: the tool names advertised to the model are the keys of _tool_map,
\* the names of the tools are pairwise distinct, every advertised name
\* resolves to the one tool of that name, and no step changes self.tools or
\* self._tool_map.
C36_AdvertisedToolsResolve ==
    /\ [] ( /\ \A i, j \in 1..Len(tools) :
                  tools[i].name = tools[j].name => i = j
            /\ pc # "idle" =>
                  /\ AdvertisedNames = DOMAIN _tool_map
                  /\ Len(tool_schemas) = Len(tools)
                  /\ \A i \in 1..Len(tool_schemas) :
                        /\ tool_schemas[i].name \in DOMAIN _tool_map
                        /\ _tool_map[tool_schemas[i].name] = tools[i] )
    /\ [][ tools' = tools /\ _tool_map' = _tool_map ]_vars

C36_Witness ==
    /\ pc = "dispatching"
    /\ Len(tool_schemas) = 4
    /\ pending # <<>>
    /\ pending[1].tool_name = tool_schemas[3].name
    /\ _tool_map[pending[1].tool_name] = tools[3]

(***************************************************************************)
(* Properties of run(agent_input), checked under SpecRun.                  *)
(***************************************************************************)

\* C37: in a session started by run(agent_input), every tool that keeps
\* records reads and writes them in agent_input.data_dir, the directory run
\* stored in self._data_dir.
C37_ToolsUseRunDataDir ==
    [][ (Executes /\ LastExecuted.data_dir # "none")
            => LastExecuted.data_dir = _data_dir' ]_vars

(***************************************************************************)
(* Properties of _compute_streak, checked under SpecStreak.                *)
(***************************************************************************)

\* The days on which user u1 has at least one session logged.
DaysLogged == {sessions["u1"][i].date : i \in 1..Len(sessions["u1"])}

\* The length of the longest run of consecutive logged days ending today.
RunEndingToday ==
    CHOOSE k \in 0..(now + 1) :
        /\ \A j \in 0..(k - 1) : (now - j) \in DaysLogged
        /\ (now - k) \notin DaysLogged

\* C38: _compute_streak returns the length of the longest run of consecutive
\* calendar days ending today on each of which a session is logged (0 when
\* there is no session dated today), whatever sessions share a day, are
\* dated after today or are older than the first gap.
C38_StreakIsRunEndingToday ==
    streak.status = "returned" => streak.value = RunEndingToday

C38_Witness ==
    /\ streak.status = "returned"
    /\ streak.value = 2
    /\ now = 3
    /\ Len(sessions["u1"]) = 4
    /\ DaysLogged = {0, 2, 3, 4}

(***************************************************************************)
(* Further properties of the tools, checked under SpecTools.               *)
(***************************************************************************)

\* C35: a tool invocation whose result is an error descriptor leaves the
\* persisted stores as they were before the invocation.
C35_FailedCallLeavesStores ==
    [][ (Executes /\ IsErrorDescriptor(LastExecuted.json))
            => /\ profiles' = profiles
               /\ sessions' = sessions ]_vars

(***************************************************************************)
(* Further properties of SummarizeAgent, checked under SpecSum.            *)
(***************************************************************************)

\* C34: after SummarizeAgent.run returns, with status success or failed,
\* config.system_prompt of the shared client is the value it had before the
\* call.
C34_PromptRestoredAfterRun ==
    (spc = "done" /\ output.status \in {"success", "failed"})
        => system_prompt = ClientPrompt

====
